---------------------------- MODULE Spec2Model ----------------------------
(***************************************************************************)
(* Smart Interview Assistant: the session controller (AppComponent), the   *)
(* speech adapter (SpeechService) and the model client (GeminiService) as  *)
(* a state machine.  Every async handler is cut at its awaits: the part    *)
(* that runs before the first await is one action, and each continuation   *)
(* that runs when the awaited promise settles is one action.  A handler    *)
(* invocation that is parked at an await is an entry of flows.             *)
(*                                                                         *)
(* A text is a sequence of tokens (a token is a character or a whole fixed *)
(* phrase), so that '' is << >> and trim() has something to remove.  An    *)
(* optional value is a sequence of length 0 (undefined) or 1.              *)
(***************************************************************************)
EXTENDS Integers, Sequences, FiniteSets

VARIABLES
    appState,        \* AppComponent.appState: 'initial' | 'loading' | 'chat'
    loadingMessage,  \* AppComponent.loadingMessage
    conversation,    \* AppComponent.conversation: ChatMessage[]
    userInput,       \* AppComponent.userInput
    nextId,          \* AppComponent.nextId
    modalData,       \* AppComponent.modalData: << >> is null
    flows,           \* handler invocations parked at an await, in call order
    lastAlert,       \* text of the alert() on screen, << >> when there is none
    isListening,     \* SpeechService.isListening
    countdown,       \* SpeechService.countdown: << >> is null
    silenceTimer,    \* SpeechService.silenceTimer: 0 is null, else a handle
    countdownInterval, \* SpeechService.countdownInterval: TRUE when set
    timeouts,        \* handles of the setTimeout calls that are still armed
    recognition,     \* the platform's SpeechRecognition session
    listenPromise,   \* the promise listen() returned: "none" | "pending"
    isAnalyzing,     \* ids of the messages whose isAnalyzing signal is true
    timeLeft,        \* seconds before each armed setTimeout handle fires
    stale,           \* armed handles whose listening session has ended
    idle,            \* seconds since the last recognition event
    file,            \* PdfParserService.getText: the pages of its argument
    fullText,        \* PdfParserService.getText: its result, << >> is none
    earlierResults,  \* event.results of an earlier result event of the
                     \* recognition session
    stoppedBySubmit  \* submitAnswer has called recognition.stop() and emptied
                     \* userInput; since then the session has not ended and
                     \* the user has not edited userInput

\* the controller's own fields
ctl == <<appState, loadingMessage, conversation, userInput, nextId, modalData>>

\* the speech adapter's listening side
lsn == <<isListening, countdown, silenceTimer, countdownInterval, timeouts,
         recognition, listenPromise>>

\* the clock of the listening session
clk == <<timeLeft, stale, idle>>

\* the text extractor
pdf == <<file, fullText>>

\* the dictation of an answer
ses == <<earlierResults, stoppedBySubmit>>

aux == <<isAnalyzing, clk, pdf, ses>>

vars == <<ctl, flows, lastAlert, lsn, aux>>

-----------------------------------------------------------------------------
(* Constants of the program *)

MAX_DURATION_SECONDS == 120

SILENCE_TIMEOUT == 10000

-----------------------------------------------------------------------------
(* Bounds of the model *)

\* ids the run may hand out (messages ever created)
MaxId == 6

\* handler invocations parked at an await at the same time
MaxFlows == 2

\* setTimeout handles that are armed at the same time
MaxTimers == 2

\* pages of a PDF
MaxPages == 2

\* text runs of a page
MaxRuns == 2

\* results in the result list of a recognition session
MaxResults == 2

-----------------------------------------------------------------------------
(* Fixed texts of the program *)

ResumeProcessed == <<"Resume processed. The interview will now begin.">>

NoQuestionFound == <<"No question found">>

Apology == <<"Sorry, I encountered an error. Please try again.">>

PleaseUploadPdf == <<"Please upload a PDF file.">>

ErrorProcessingResume ==
    <<"There was an error processing your resume. Please try again.">>

ReadingResume == <<"Reading your resume...">>

ThinkingFirst == <<"Thinking of the first question...">>

ThinkingNext == <<"Thinking of the next question...">>

Processing == <<"Processing...">>

MicDenied ==
    <<"Microphone access was denied. Please allow microphone permissions in your browser settings and refresh the page.">>

MicError == <<"An error occurred with the microphone: ">>

AnalysisApology == <<"Sorry, an error occurred while analyzing the answer.">>

CouldNotAnalyze ==
    <<"Sorry, I could not analyze the mistakes in the response.">>

-----------------------------------------------------------------------------
(* Inputs drawn by the environment *)

\* input.files of a file-selected event: no file, or one file of a MIME type
FileLists == { << >>, <<[type |-> "image/png"]>>, <<[type |-> "application/pdf"]>> }

\* what the user can type into the answer box
TypedTexts == { <<" ">>, <<" ", "a", " ">> }

\* response.text of a model call that succeeds
ResponseTexts == { << >>, <<"Q1">> }

\* event.results of a recognition result event
ResultLists ==
    { <<[isFinal |-> TRUE, transcript |-> <<" ", "a">>],
        [isFinal |-> FALSE, transcript |-> <<" ">>]>> }

\* the transcript of a recognition result
Segments == { <<"a">>, <<" ", "b">> }

\* the result lists of a session in continuous mode with interim results:
\* final results, followed by the interim ones
SessionLists ==
    UNION { { [i \in 1..n |-> [isFinal |-> i <= k, transcript |-> t[i]]] :
                 t \in [1..n -> Segments], k \in 0..n }
            : n \in 0..MaxResults }

\* event.error of a recognition error event
ErrorCodes == { <<"not-allowed">>, <<"network">> }

\* response.text of an analyzeMistakes call that succeeds: nothing, an
\* array of one segment, an array cut short, words that are not JSON
AnalysisTexts ==
    { << >>, <<"[", "{a}", "]">>, <<"[", "{a}">>, <<"Q1">> }

\* the kinds of analysis
AnalysisTypes == {"mistakes", "suggestion"}

\* item.str of a text run of a page
Runs == { << >>, <<"a">>, <<"b", " ">> }

\* textContent.items of a page
Pages == UNION {[1..n -> Runs] : n \in 0..MaxRuns}

\* the pages of a PDF document, which has one page at least
Documents == UNION {[1..n -> Pages] : n \in 1..MaxPages}

-----------------------------------------------------------------------------
(* Pure helpers *)

IsSpace(c) == c \in {" ", "\t", "\n"}

RECURSIVE TrimStart(_)
TrimStart(s) ==
    IF s # << >> /\ IsSpace(Head(s)) THEN TrimStart(Tail(s)) ELSE s

RECURSIVE TrimEnd(_)
TrimEnd(s) ==
    IF s # << >> /\ IsSpace(s[Len(s)])
    THEN TrimEnd(SubSeq(s, 1, Len(s) - 1))
    ELSE s

\* String.prototype.trim
Trim(s) == TrimEnd(TrimStart(s))

\* Array.prototype.reverse on a copy
Reverse(s) == [i \in 1..Len(s) |-> s[Len(s) + 1 - i]]

\* JavaScript truthiness of a string
Truthy(t) == t # << >>

\* mutant: find without reverse, the first assistant message
LastQuestionUnreversed(conv) ==
    LET hits == {i \in 1..Len(conv) : conv[i].role = "assistant"}
    IN  IF hits = {} THEN NoQuestionFound
        ELSE LET first == CHOOSE i \in hits : \A j \in hits : i <= j
             IN  IF Truthy(conv[first].text) THEN conv[first].text
                 ELSE NoQuestionFound

\* [...conversation].reverse().find(m => m.role === 'assistant')?.text
\*     || 'No question found'
LastQuestion(conv) ==
    LET r == Reverse(conv)
        hits == {i \in 1..Len(r) : r[i].role = "assistant"}
    IN  IF hits = {} THEN NoQuestionFound
        ELSE LET first == CHOOSE i \in hits : \A j \in hits : i <= j
             IN  IF Truthy(r[first].text) THEN r[first].text
                 ELSE NoQuestionFound

\* the ChatMessage literal of addMessage and of onFileSelected
NewMessage(id, role, text, questionContext) ==
    [id |-> id, role |-> role, text |-> text,
     questionContext |-> questionContext]

\* GeminiService.generateContent: the response text, or the apology when
\* the call throws
GenerateContentRethrowing(ok, text) == text

GenerateContent(ok, text) == IF ok THEN text ELSE Apology

\* Array.prototype.join: the elements with sep between them
RECURSIVE ArrayJoin(_, _)
ArrayJoin(a, sep) ==
    IF a = << >> THEN << >>
    ELSE IF Len(a) = 1 THEN a[1]
    ELSE ArrayJoin(SubSeq(a, 1, Len(a) - 1), sep) \o sep \o a[Len(a)]

\* mutant: the text runs of a page joined with nothing between them
PageTextUnspaced(items) == ArrayJoin(items, << >>)

\* pageText of getText: items.map(item => item.str).join(' ')
PageText(items) == ArrayJoin(items, <<" ">>)

\* fullText of getText after the first n turns of its loop
RECURSIVE FullTextAfter(_, _)
FullTextAfter(pages, n) ==
    IF n = 0 THEN << >>
    ELSE FullTextAfter(pages, n - 1) \o PageText(pages[n]) \o <<"\n", "\n">>

\* PdfParserService.getText
GetText(pages) == FullTextAfter(pages, Len(pages))

\* the segment of analyzeMistakes' catch block
FallbackSegment ==
    [text |-> AnalysisApology, isError |-> FALSE, correction |-> << >>]

\* JSON object literals, each one token of a JSON text, and their values
ObjectTokens == {"{fallback}", "{a}"}

ObjectOf(c) ==
    IF c = "{fallback}" THEN FallbackSegment
    ELSE [text |-> <<"a">>, isError |-> FALSE, correction |-> << >>]

TokenOf(o) == IF o = FallbackSegment THEN "{fallback}" ELSE "{a}"

\* JSON.stringify of an array of objects
RECURSIVE JsonElements(_)
JsonElements(a) ==
    IF a = << >> THEN << >>
    ELSE IF Len(a) = 1 THEN <<TokenOf(a[1])>>
    ELSE <<TokenOf(a[1]), ",">> \o JsonElements(Tail(a))

JsonStringify(a) == <<"[">> \o JsonElements(a) \o <<"]">>

\* the elements between the brackets of a JSON array: objects separated
\* by commas
RECURSIVE IsElementList(_)
IsElementList(t) ==
    /\ t # << >>
    /\ Head(t) \in ObjectTokens
    /\ \/ Len(t) = 1
       \/ Len(t) >= 3 /\ t[2] = "," /\ IsElementList(SubSeq(t, 3, Len(t)))

\* JSON.parse does not throw: the text is an array of objects
JsonParses(t) ==
    /\ Len(t) >= 2
    /\ Head(t) = "["
    /\ t[Len(t)] = "]"
    /\ Len(t) = 2 \/ IsElementList(SubSeq(t, 2, Len(t) - 1))

\* JSON.parse of a text that parses
JsonParse(t) ==
    LET inner == SubSeq(t, 2, Len(t) - 1)
        at == {i \in 1..Len(inner) : inner[i] \in ObjectTokens}
    IN  [k \in 1..Cardinality(at) |-> ObjectOf(inner[2 * k - 1])]

\* mutant: analyzeMistakes returns the apology as plain text when the
\* call throws
AnalyzeMistakesPlainApology(ok, text) == IF ok THEN text ELSE Apology

\* GeminiService.analyzeMistakes: the response text, or the JSON text of
\* the fallback array when the call throws
AnalyzeMistakes(ok, text) ==
    IF ok THEN text ELSE JsonStringify(<<FallbackSegment>>)

-----------------------------------------------------------------------------
(* Flows *)

\* kind: the handler; pc: the await it is parked at ("cancelled" is a speak
\* whose utterance synth.cancel() removed and whose event is still to come);
\* sets: the values this invocation has assigned to appState so far;
\* found: the phase an upload found when it began, kept while its extraction
\* is outstanding ("" otherwise);
\* msg: the id of the user message a submission appended (-1 for the rest)
Flow(kind, pc, found, sets, msg) ==
    [kind |-> kind, pc |-> pc, found |-> found, sets |-> sets, msg |-> msg]

\* s without its i-th element
Remove(s, i) == SubSeq(s, 1, i - 1) \o SubSeq(s, i + 1, Len(s))

\* s with its i-th element replaced
Replace(s, i, f) == [s EXCEPT ![i] = f]

\* ids a parked invocation may still consume
IdsLeft(f) ==
    CASE f.pc = "getText" -> 2
      [] f.pc = "generateFirstQuestion" -> 1
      [] f.pc = "delay" -> 1
      [] f.pc = "generateFollowUpQuestion" -> 1
      [] OTHER -> 0

RECURSIVE IdsReserved(_)
IdsReserved(s) ==
    IF s = << >> THEN 0 ELSE IdsLeft(Head(s)) + IdsReserved(Tail(s))

\* room for a handler that parks a new flow and creates up to n messages
Room(n) ==
    /\ Len(flows) < MaxFlows
    /\ nextId + IdsReserved(flows) + n <= MaxId

-----------------------------------------------------------------------------
Init ==
    /\ appState = "initial"
    /\ loadingMessage = Processing
    /\ conversation = << >>
    /\ userInput = << >>
    /\ nextId = 0
    /\ modalData = << >>
    /\ flows = << >>
    /\ lastAlert = << >>
    /\ isListening = FALSE
    /\ countdown = << >>
    /\ silenceTimer = 0
    /\ countdownInterval = FALSE
    /\ timeouts = {}
    /\ recognition = "idle"
    /\ listenPromise = "none"
    /\ isAnalyzing = {}
    /\ timeLeft = << >>
    /\ stale = {}
    /\ idle = 0
    /\ file = << >>
    /\ fullText = << >>
    /\ earlierResults = << >>
    /\ stoppedBySubmit = FALSE

-----------------------------------------------------------------------------
(* SpeechService: synthesis *)

\* window.speechSynthesis.speaking
SynthSpeaking(fs) == \E i \in 1..Len(fs) : fs[i].pc = "speak"

\* synth.cancel(): every utterance is removed from the queue
SynthCancel(fs) ==
    [i \in 1..Len(fs) |->
        IF fs[i].pc = "speak" THEN [fs[i] EXCEPT !.pc = "cancelled"]
        ELSE fs[i]]

\* the synchronous part of speak(): cancel what is being spoken
SpeakCancels(fs) == IF SynthSpeaking(fs) THEN SynthCancel(fs) ELSE fs

\* stopSpeaking()
StopSpeaking(fs) == IF SynthSpeaking(fs) THEN SynthCancel(fs) ELSE fs

-----------------------------------------------------------------------------
(* SpeechService: recognition *)

\* recognition.stop() as the platform takes it: a session that has not
\* begun to end begins to end
RecognitionStop(r) ==
    CASE r = "starting" -> "stoppingEarly"
      [] r = "running" -> "stopping"
      [] OTHER -> r

\* mutant: stopListening() without the call of recognition.stop()
StopListeningIgnored == UNCHANGED recognition

\* stopListening()
StopListening ==
    recognition' = IF isListening THEN RecognitionStop(recognition)
                   ELSE recognition

\* clearTimeout(h): the handle is disarmed; a handle that is not armed
\* (null, or one that has fired) is ignored
ClearTimeout(h) ==
    /\ timeouts' = timeouts \ {h}
    /\ timeLeft' = [k \in timeouts \ {h} |-> timeLeft[k]]

\* clearTimers()
ClearTimers ==
    /\ ClearTimeout(silenceTimer)
    /\ silenceTimer' = 0
    /\ countdownInterval' = FALSE
    /\ countdown' = << >>

\* the text the onresult handler hands to its callback
RECURSIVE Transcripts(_, _)
Transcripts(results, final) ==
    IF results = << >> THEN << >>
    ELSE (IF Head(results).isFinal = final THEN Head(results).transcript
          ELSE << >>) \o Transcripts(Tail(results), final)

\* mutant: the callback gets the transcript of the latest result only
ResultTextLatestOnly(results) ==
    IF results = << >> THEN << >> ELSE results[Len(results)].transcript

ResultText(results) == Transcripts(results, TRUE) \o Transcripts(results, FALSE)

\* the final results of a result list
FinalResults(results) == SelectSeq(results, LAMBDA r : r.isFinal)

\* a later result list of the session of the list earlier: the platform
\* overwrites or removes interim results only, the final ones stay where
\* they are
Continues(earlier, results) ==
    /\ Len(FinalResults(earlier)) <= Len(results)
    /\ SubSeq(results, 1, Len(FinalResults(earlier))) = FinalResults(earlier)

-----------------------------------------------------------------------------
(* AppComponent *)

\* mutant: the new message is put in front
AddMessageInFront(role, text, questionContext) ==
    /\ conversation' =
           <<NewMessage(nextId, role, text, questionContext)>> \o conversation
    /\ nextId' = nextId + 1

\* mutant: nextId is read and not incremented
AddMessageSameId(role, text, questionContext) ==
    /\ conversation' =
           Append(conversation, NewMessage(nextId, role, text, questionContext))
    /\ nextId' = nextId

\* addMessage(role, text, questionContext)
AddMessage(role, text, questionContext) ==
    /\ conversation' =
           Append(conversation, NewMessage(nextId, role, text, questionContext))
    /\ nextId' = nextId + 1

\* mutant: the phase is set to loading before the MIME type is checked
OnFileSelectedLoadingFirst(files) ==
    \/ /\ files = << >>
       /\ UNCHANGED vars
    \/ /\ files # << >>
       /\ files[1].type # "application/pdf"
       /\ lastAlert' = PleaseUploadPdf
       /\ appState' = "loading"
       /\ loadingMessage' = ReadingResume
       /\ UNCHANGED <<conversation, userInput, nextId, modalData, flows, lsn, aux>>
    \/ /\ files # << >>
       /\ files[1].type = "application/pdf"
       /\ Room(2)
       /\ appState' = "loading"
       /\ loadingMessage' = ReadingResume
       /\ flows' = Append(flows, Flow("onFileSelected", "getText", appState, <<"loading">>, -1))
       /\ UNCHANGED <<conversation, userInput, nextId, modalData, lastAlert, lsn, aux>>

\* onFileSelected up to its first await
OnFileSelected(files) ==
    \/ /\ files = << >>
       /\ UNCHANGED vars
    \/ /\ files # << >>
       /\ files[1].type # "application/pdf"
       /\ lastAlert' = PleaseUploadPdf
       /\ UNCHANGED <<ctl, flows, lsn, aux>>
    \/ /\ files # << >>
       /\ files[1].type = "application/pdf"
       /\ Room(2)
       /\ appState' = "loading"
       /\ loadingMessage' = ReadingResume
       /\ flows' = Append(flows, Flow("onFileSelected", "getText", appState, <<"loading">>, -1))
       /\ UNCHANGED <<conversation, userInput, nextId, modalData, lastAlert, lsn, aux>>

\* mutant: the system message is appended to the conversation
GetTextResolvesAppending(i) ==
    /\ flows[i].pc = "getText"
    /\ conversation' =
           Append(conversation,
                  NewMessage(nextId, "system", ResumeProcessed, << >>))
    /\ nextId' = nextId + 1
    /\ appState' = "loading"
    /\ loadingMessage' = ThinkingFirst
    /\ flows' = Replace(flows, i,
                   Flow("onFileSelected", "generateFirstQuestion", "",
                        flows[i].sets \o <<"chat", "loading">>, -1))
    /\ UNCHANGED <<userInput, modalData, lastAlert, lsn, aux>>

\* onFileSelected from the resolution of getText to the await of
\* generateFirstQuestion
GetTextResolves(i) ==
    /\ flows[i].pc = "getText"
    /\ conversation' = <<NewMessage(nextId, "system", ResumeProcessed, << >>)>>
    /\ nextId' = nextId + 1
    /\ appState' = "loading"
    /\ loadingMessage' = ThinkingFirst
    /\ flows' = Replace(flows, i,
                   Flow("onFileSelected", "generateFirstQuestion", "",
                        flows[i].sets \o <<"chat", "loading">>, -1))
    /\ UNCHANGED <<userInput, modalData, lastAlert, lsn, aux>>

\* mutant: the catch block leaves the phase as it is
CatchUploadKeepingPhase(i) ==
    /\ lastAlert' = ErrorProcessingResume
    /\ flows' = Remove(flows, i)
    /\ UNCHANGED <<ctl, lsn, aux>>

\* the catch block of onFileSelected
CatchUpload(i) ==
    /\ lastAlert' = ErrorProcessingResume
    /\ appState' = "initial"
    /\ flows' = Remove(flows, i)
    /\ UNCHANGED <<loadingMessage, conversation, userInput, nextId, modalData,
                   lsn, aux>>

\* getText throws (not a PDF after all, corrupt file)
GetTextRejects(i) ==
    /\ flows[i].pc = "getText"
    /\ CatchUpload(i)

\* from the return of a question-generating model call to the await of
\* speak: addMessage('assistant', q); appState.set('chat'); speak(q)
QuestionReturns(i, ok, text) ==
    /\ AddMessage("assistant", GenerateContent(ok, text), << >>)
    /\ appState' = "chat"
    /\ flows' = Replace(SpeakCancels(flows), i,
                   Flow(flows[i].kind, "speak", "", flows[i].sets \o <<"chat">>,
                        flows[i].msg))
    /\ UNCHANGED <<loadingMessage, userInput, modalData, lastAlert, lsn, aux>>

GenerateFirstQuestionReturns(i, ok, text) ==
    /\ flows[i].pc = "generateFirstQuestion"
    /\ QuestionReturns(i, ok, text)

\* mutant: the guard tests the input as typed, not its trimmed text
SubmitAcceptedUntrimmed == Truthy(userInput) /\ appState # "loading"

\* the guard of submitAnswer: the early return is not taken
SubmitAccepted == Truthy(Trim(userInput)) /\ appState # "loading"

\* submitAnswer up to its first await
SubmitAnswer ==
    \/ /\ ~SubmitAccepted
       /\ UNCHANGED vars
    \/ /\ SubmitAccepted
       /\ Room(2)
       /\ StopListening
       /\ AddMessage("user", Trim(userInput), <<LastQuestion(conversation)>>)
       /\ userInput' = << >>
       /\ appState' = "loading"
       /\ loadingMessage' = ThinkingNext
       /\ flows' = Append(flows, Flow("submitAnswer", "delay", "", <<"loading">>, nextId))
       /\ stoppedBySubmit' = isListening
       /\ UNCHANGED <<modalData, lastAlert, isListening, countdown,
                      silenceTimer, countdownInterval, timeouts, listenPromise,
                      isAnalyzing, clk, pdf, earlierResults>>

\* the 500 ms timer fires; generateFollowUpQuestion(this.conversation()) is
\* called
DelayElapses(i) ==
    /\ flows[i].pc = "delay"
    /\ flows' = Replace(flows, i,
                   [flows[i] EXCEPT !.pc = "generateFollowUpQuestion"])
    /\ UNCHANGED <<ctl, lastAlert, lsn, aux>>

GenerateFollowUpQuestionReturns(i, ok, text) ==
    /\ flows[i].pc = "generateFollowUpQuestion"
    /\ QuestionReturns(i, ok, text)

\* utterance.onend: the promise of speak resolves and the handler returns
UtteranceEnds(i) ==
    /\ flows[i].pc \in {"speak", "cancelled"}
    /\ flows' = Remove(flows, i)
    /\ UNCHANGED <<ctl, lastAlert, lsn, aux>>

\* utterance.onerror: the promise of speak rejects; onFileSelected catches
\* it, submitAnswer does not
UtteranceErrors(i) ==
    /\ flows[i].pc \in {"speak", "cancelled"}
    /\ IF flows[i].kind = "onFileSelected"
       THEN CatchUpload(i)
       ELSE /\ flows' = Remove(flows, i)
            /\ UNCHANGED <<ctl, lastAlert, lsn, aux>>

\* closeModal()
CloseModal ==
    /\ modalData' = << >>
    /\ flows' = StopSpeaking(flows)
    /\ UNCHANGED <<appState, loadingMessage, conversation, userInput, nextId,
                   lastAlert, lsn, aux>>

\* the ModalData literals of requestAnalysis
MistakeModal(content) ==
    [title |-> "Mistake Analysis", isSuggestion |-> FALSE,
     suggestionContent |-> << >>, mistakeContent |-> <<content>>]

ErrorModal ==
    [title |-> "Error", isSuggestion |-> FALSE,
     suggestionContent |-> <<CouldNotAnalyze>>, mistakeContent |-> << >>]

SuggestionModal(suggestion) ==
    [title |-> "Suggested Answer", isSuggestion |-> TRUE,
     suggestionContent |-> <<suggestion>>, mistakeContent |-> << >>]

\* !message.questionContext is false: the context is there and not ''
HasQuestionContext(message) ==
    /\ message.questionContext # << >>
    /\ Truthy(message.questionContext[1])

\* mutant: requestAnalysis without its first line
RequestAnalysisUnguarded(type, message) ==
    /\ Len(flows) < MaxFlows
    /\ isAnalyzing' = isAnalyzing \cup {message.id}
    /\ flows' = Append(flows,
                   Flow("requestAnalysis",
                        IF type = "mistakes" THEN "analyzeMistakes"
                        ELSE "suggestAnswer", "", << >>, message.id))
    /\ UNCHANGED <<ctl, lastAlert, lsn, clk, pdf, ses>>

\* requestAnalysis(type, message) up to its await
RequestAnalysis(type, message) ==
    \/ /\ ~HasQuestionContext(message)
       /\ UNCHANGED vars
    \/ /\ HasQuestionContext(message)
       /\ Len(flows) < MaxFlows
       /\ isAnalyzing' = isAnalyzing \cup {message.id}
       /\ flows' = Append(flows,
                      Flow("requestAnalysis",
                           IF type = "mistakes" THEN "analyzeMistakes"
                           ELSE "suggestAnswer", "", << >>, message.id))
       /\ UNCHANGED <<ctl, lastAlert, lsn, clk, pdf, ses>>

\* requestAnalysis('mistakes', ...) from the return of analyzeMistakes to
\* its end
AnalyzeMistakesReturns(i, ok, text) ==
    /\ flows[i].pc = "analyzeMistakes"
    /\ modalData' =
          IF JsonParses(AnalyzeMistakes(ok, text))
          THEN <<MistakeModal(JsonParse(AnalyzeMistakes(ok, text)))>>
          ELSE <<ErrorModal>>
    /\ isAnalyzing' = isAnalyzing \ {flows[i].msg}
    /\ flows' = Remove(flows, i)
    /\ UNCHANGED <<appState, loadingMessage, conversation, userInput, nextId,
                   lastAlert, lsn, clk, pdf, ses>>

\* mutant: the suggestion is also appended to the conversation as a
\* message of the assistant
SuggestAnswerReturnsAppending(i, ok, text) ==
    /\ flows[i].pc = "suggestAnswer"
    /\ modalData' = <<SuggestionModal(GenerateContent(ok, text))>>
    /\ isAnalyzing' = isAnalyzing \ {flows[i].msg}
    /\ flows' = Remove(flows, i)
    /\ conversation' =
          Append(conversation,
                 NewMessage(nextId, "assistant", GenerateContent(ok, text),
                            << >>))
    /\ nextId' = nextId + 1
    /\ UNCHANGED <<appState, loadingMessage, userInput,
                   lastAlert, lsn, clk, pdf, ses>>

\* requestAnalysis('suggestion', ...) from the return of suggestAnswer to
\* its end
SuggestAnswerReturns(i, ok, text) ==
    /\ flows[i].pc = "suggestAnswer"
    /\ modalData' = <<SuggestionModal(GenerateContent(ok, text))>>
    /\ isAnalyzing' = isAnalyzing \ {flows[i].msg}
    /\ flows' = Remove(flows, i)
    /\ UNCHANGED <<appState, loadingMessage, conversation, userInput, nextId,
                   lastAlert, lsn, clk, pdf, ses>>

\* serial numbers of the utterances of playSuggestionAudio that have not
\* settled; a new one takes the smallest that is free
Serials == {flows[i].msg : i \in {j \in 1..Len(flows) :
                                     flows[j].kind = "playSuggestionAudio"}}

NewSerial == CHOOSE n \in 0..MaxFlows : n \notin Serials

\* modalData()?.suggestionContent is there and not ''
HasSuggestionContent ==
    /\ modalData # << >>
    /\ modalData[1].suggestionContent # << >>
    /\ Truthy(modalData[1].suggestionContent[1])

\* mutant: speak() without the cancel of what is being spoken
PlaySuggestionAudioWithoutCancel ==
    /\ HasSuggestionContent
    /\ Len(flows) < MaxFlows
    /\ flows' = Append(flows,
                   Flow("playSuggestionAudio", "speak", "", << >>, NewSerial))
    /\ UNCHANGED <<ctl, lastAlert, lsn, aux>>

\* playSuggestionAudio(): speak(content), not awaited
PlaySuggestionAudio ==
    \/ /\ ~HasSuggestionContent
       /\ UNCHANGED vars
    \/ /\ HasSuggestionContent
       /\ Len(flows) < MaxFlows
       /\ flows' = Append(SpeakCancels(flows),
                      Flow("playSuggestionAudio", "speak", "", << >>,
                           NewSerial))
       /\ UNCHANGED <<ctl, lastAlert, lsn, aux>>

\* the answer box is bound to userInput: the user edits it
TypeInput(t) ==
    /\ userInput' = t
    /\ stoppedBySubmit' = FALSE
    /\ UNCHANGED <<appState, loadingMessage, conversation, nextId, modalData,
                   flows, lastAlert, lsn, isAnalyzing, clk, pdf,
                   earlierResults>>

\* startListening(): the microphone button, with listen() up to
\* recognition.start()
StartListening ==
    \/ /\ isListening
       /\ StopListening
       /\ UNCHANGED <<ctl, flows, lastAlert, isListening, countdown,
                      silenceTimer, countdownInterval, timeouts, listenPromise,
                      aux>>
    \/ /\ ~isListening
       /\ recognition = "idle"
       /\ isListening' = TRUE
       /\ recognition' = "starting"
       /\ listenPromise' = "pending"
       /\ UNCHANGED <<ctl, flows, lastAlert, countdown, silenceTimer,
                      countdownInterval, timeouts, aux>>

\* startListening() between the error event of a session and its end event:
\* recognition.start() throws inside the promise executor, after
\* isListening.set(true); the promise rejects and startListening catches
StartListeningThrows ==
    /\ ~isListening
    /\ recognition # "idle"
    /\ isListening' = TRUE
    /\ listenPromise' = "none"
    /\ lastAlert' = MicError
    /\ UNCHANGED <<ctl, flows, countdown, silenceTimer, countdownInterval,
                   timeouts, recognition, aux>>

\* recognition.onstart
OnStart ==
    /\ recognition \in {"starting", "stoppingEarly"}
    /\ recognition' = IF recognition = "starting" THEN "running" ELSE "stopping"
    /\ ClearTimeout(silenceTimer)
    /\ silenceTimer' = 0
    /\ countdown' = <<MAX_DURATION_SECONDS>>
    /\ countdownInterval' = TRUE
    /\ stale' = stale \ {silenceTimer}
    /\ idle' = 0
    /\ UNCHANGED <<ctl, flows, lastAlert, isListening, listenPromise,
                   isAnalyzing, pdf, ses>>

\* recognition.onresult, with the callback startListening passed to listen
OnResult(results) ==
    /\ recognition \in {"running", "stopping"}
    /\ ClearTimeout(silenceTimer)
    /\ silenceTimer' = 0
    /\ userInput' = ResultText(results)
    /\ stale' = stale \ {silenceTimer}
    /\ idle' = 0
    /\ UNCHANGED <<appState, loadingMessage, conversation, nextId, modalData,
                   flows, lastAlert, isListening, countdown, countdownInterval,
                   recognition, listenPromise, isAnalyzing, pdf, ses>>

\* recognition.onend; the promise of listen resolves and startListening
\* returns
OnEnd ==
    /\ recognition \in {"running", "stopping", "stoppingEarly", "errored"}
    /\ recognition' = "idle"
    /\ ClearTimers
    /\ isListening' = FALSE
    /\ listenPromise' = "none"
    /\ stale' = timeouts \ {silenceTimer}
    /\ idle' = 0
    /\ stoppedBySubmit' = FALSE
    /\ UNCHANGED <<ctl, flows, lastAlert, isAnalyzing, pdf, earlierResults>>

\* the alert of the catch block of startListening
MicAlert(error) == IF error = <<"not-allowed">> THEN MicDenied ELSE MicError

\* recognition.onerror; the promise of listen rejects and startListening
\* catches
OnError(error) ==
    /\ recognition \in {"starting", "running", "stopping", "stoppingEarly"}
    /\ recognition' = "errored"
    /\ isListening' = FALSE
    /\ ClearTimers
    /\ listenPromise' = "none"
    /\ lastAlert' = IF listenPromise = "pending" THEN MicAlert(error)
                    ELSE lastAlert
    /\ stale' = timeouts \ {silenceTimer}
    /\ idle' = 0
    /\ stoppedBySubmit' = FALSE
    /\ UNCHANGED <<ctl, flows, isAnalyzing, pdf, earlierResults>>

\* mutant: listen() without the isListening() check; start() throws on the
\* session that is running and the new promise rejects
ListenWithoutCheck ==
    /\ isListening
    /\ listenPromise' = "none"
    /\ lastAlert' = MicError
    /\ UNCHANGED <<ctl, flows, isListening, countdown, silenceTimer,
                   countdownInterval, timeouts, recognition, aux>>

\* listen() while isListening() is true: Promise.resolve()
ListenAlreadyListening ==
    /\ isListening
    /\ UNCHANGED vars

\* the silence timeout in seconds
SilenceSeconds == SILENCE_TIMEOUT \div 1000

\* the handle setTimeout returns
NewHandle == CHOOSE h \in 1..MaxTimers : h \notin timeouts

\* recognition.onspeechend: silenceTimer = setTimeout(stopListening, 10000)
OnSpeechEnd ==
    /\ recognition \in {"running", "stopping"}
    /\ timeouts # 1..MaxTimers
    /\ timeouts' = timeouts \cup {NewHandle}
    /\ timeLeft' = [k \in timeouts \cup {NewHandle} |->
                       IF k = NewHandle THEN SilenceSeconds ELSE timeLeft[k]]
    /\ silenceTimer' = NewHandle
    /\ idle' = 0
    /\ UNCHANGED <<ctl, flows, lastAlert, isListening, countdown,
                   countdownInterval, recognition, listenPromise, isAnalyzing,
                   stale, pdf, ses>>

\* the callback of setTimeout in onspeechend, when its time has come:
\* stopListening()
SilenceTimeoutFires(h) ==
    /\ h \in timeouts
    /\ timeLeft[h] = 0
    /\ ClearTimeout(h)
    /\ stale' = stale \ {h}
    /\ StopListening
    /\ UNCHANGED <<ctl, flows, lastAlert, isListening, countdown, silenceTimer,
                   countdownInterval, listenPromise, isAnalyzing, idle, pdf,
                   ses>>

\* mutant: the callback returns newTime also when it is below 1
CountdownUpdateUnclamped ==
    LET newTime == (IF countdown = << >> THEN 1 ELSE countdown[1]) - 1
    IN  IF newTime <= 0
        THEN countdown' = <<newTime>> /\ StopListening
        ELSE countdown' = <<newTime>> /\ UNCHANGED recognition

\* the callback of setInterval in onstart: countdown.update(...)
CountdownUpdate ==
    LET newTime == (IF countdown = << >> THEN 1 ELSE countdown[1]) - 1
    IN  IF newTime <= 0
        THEN countdown' = <<0>> /\ StopListening
        ELSE countdown' = <<newTime>> /\ UNCHANGED recognition

\* one second passes: every armed timeout is a second nearer (one that is
\* due fires before the second is over), and the interval callback runs
Tick ==
    /\ countdownInterval \/ timeouts # {}
    /\ \A h \in timeouts : timeLeft[h] > 0
    /\ timeLeft' = [h \in timeouts |-> timeLeft[h] - 1]
    /\ idle' = IF recognition \in {"running", "stopping"} /\ idle <= SilenceSeconds
               THEN idle + 1 ELSE idle
    /\ IF countdownInterval THEN CountdownUpdate
       ELSE UNCHANGED <<countdown, recognition>>
    /\ UNCHANGED <<ctl, flows, lastAlert, isListening, silenceTimer,
                   countdownInterval, timeouts, listenPromise, isAnalyzing,
                   stale, pdf, ses>>

-----------------------------------------------------------------------------
\* alert() blocks the page until the user dismisses it: no handler, timer
\* or platform event runs while lastAlert is on screen.  The statements a
\* handler runs after its alert() are taken with the step that shows it.
NoAlert == lastAlert = << >>

DismissAlert ==
    /\ lastAlert # << >>
    /\ lastAlert' = << >>
    /\ UNCHANGED <<ctl, flows, lsn, aux>>

Next ==
    \/ DismissAlert
    \/ NoAlert /\ \E files \in FileLists : OnFileSelected(files)
    \/ NoAlert /\ \E i \in 1..Len(flows) : GetTextResolves(i)
    \/ NoAlert /\ \E i \in 1..Len(flows) : GetTextRejects(i)
    \/ NoAlert /\ \E i \in 1..Len(flows), ok \in BOOLEAN, text \in ResponseTexts :
          GenerateFirstQuestionReturns(i, ok, text)
    \/ NoAlert /\ SubmitAnswer
    \/ NoAlert /\ \E i \in 1..Len(flows) : DelayElapses(i)
    \/ NoAlert /\ \E i \in 1..Len(flows), ok \in BOOLEAN, text \in ResponseTexts :
          GenerateFollowUpQuestionReturns(i, ok, text)
    \/ NoAlert /\ \E i \in 1..Len(flows) : UtteranceEnds(i)
    \/ NoAlert /\ \E i \in 1..Len(flows) : UtteranceErrors(i)
    \/ NoAlert /\ CloseModal
    \/ NoAlert /\ \E t \in TypedTexts : TypeInput(t)
    \/ NoAlert /\ StartListening
    \/ NoAlert /\ OnStart
    \/ NoAlert /\ \E results \in ResultLists : OnResult(results)
    \/ NoAlert /\ OnEnd

Spec == Init /\ [][Next]_vars

\* The event loop runs every callback that is due: a timer that has expired
\* and a call that has settled are taken, also when alerts keep interrupting
\* (strong fairness), and the claim lets every outstanding call resolve or
\* fail.  The user dismisses an alert that is on screen.
Fairness ==
    /\ WF_vars(DismissAlert)
    /\ \A i \in 1..MaxFlows :
          SF_vars(/\ NoAlert
                  /\ i <= Len(flows)
                  /\ \/ GetTextResolves(i)
                     \/ GetTextRejects(i)
                     \/ DelayElapses(i)
                     \/ \E ok \in BOOLEAN, text \in ResponseTexts :
                           \/ GenerateFirstQuestionReturns(i, ok, text)
                           \/ GenerateFollowUpQuestionReturns(i, ok, text))

FairSpec == Spec /\ Fairness

\* The speech adapter's listening side on its own, with its timers and the
\* passing of time: the microphone button, the platform's recognition
\* events, the seconds.
ListenNext ==
    \/ DismissAlert
    \/ NoAlert /\ StartListening
    \/ NoAlert /\ StartListeningThrows
    \/ NoAlert /\ ListenAlreadyListening
    \/ NoAlert /\ OnStart
    \/ NoAlert /\ \E results \in ResultLists : OnResult(results)
    \/ NoAlert /\ OnSpeechEnd
    \/ NoAlert /\ OnEnd
    \/ NoAlert /\ \E error \in ErrorCodes : OnError(error)
    \/ NoAlert /\ Tick
    \/ NoAlert /\ \E h \in 1..MaxTimers : SilenceTimeoutFires(h)

ListenSpec == Init /\ [][ListenNext]_vars

\* Time passes and a timeout that is due fires; the platform delivers the
\* start event of a session it was asked to start and the end event of a
\* session that was stopped or has failed; the user dismisses an alert.
ListenFairness ==
    /\ WF_vars(DismissAlert)
    /\ WF_vars(NoAlert /\ Tick)
    /\ WF_vars(NoAlert /\ \E h \in 1..MaxTimers : SilenceTimeoutFires(h))
    /\ WF_vars(NoAlert /\ OnStart)
    /\ WF_vars(NoAlert /\ recognition \notin {"starting", "running"} /\ OnEnd)

ListenFairSpec == ListenSpec /\ ListenFairness

\* The analysis of the answers of an interview in which two answers were
\* given, the second to a question that the model failed to produce: the
\* buttons of the messages, the returns of the model calls, the modal.
AnalysisInit ==
    /\ appState = "chat"
    /\ loadingMessage = ThinkingNext
    /\ conversation =
          << NewMessage(0, "system", ResumeProcessed, << >>),
             NewMessage(1, "assistant", <<"Q1">>, << >>),
             NewMessage(2, "user", <<"a">>, << <<"Q1">> >>),
             NewMessage(3, "assistant", Apology, << >>),
             NewMessage(4, "user", <<"a">>, <<Apology>>),
             NewMessage(5, "assistant", <<"Q1">>, << >>) >>
    /\ userInput = << >>
    /\ nextId = 6
    /\ modalData = << >>
    /\ flows = << >>
    /\ lastAlert = << >>
    /\ isListening = FALSE
    /\ countdown = << >>
    /\ silenceTimer = 0
    /\ countdownInterval = FALSE
    /\ timeouts = {}
    /\ recognition = "idle"
    /\ listenPromise = "none"
    /\ isAnalyzing = {}
    /\ timeLeft = << >>
    /\ stale = {}
    /\ idle = 0
    /\ file = << >>
    /\ fullText = << >>
    /\ earlierResults = << >>
    /\ stoppedBySubmit = FALSE

AnalysisNext ==
    \/ \E type \in AnalysisTypes, k \in 1..Len(conversation) :
          RequestAnalysis(type, conversation[k])
    \/ \E i \in 1..Len(flows), ok \in BOOLEAN, text \in AnalysisTexts :
          AnalyzeMistakesReturns(i, ok, text)
    \/ \E i \in 1..Len(flows), ok \in BOOLEAN, text \in ResponseTexts :
          SuggestAnswerReturns(i, ok, text)
    \/ PlaySuggestionAudio
    \/ CloseModal
    \/ \E i \in 1..Len(flows) : UtteranceEnds(i)
    \/ \E i \in 1..Len(flows) : UtteranceErrors(i)

AnalysisSpec == AnalysisInit /\ [][AnalysisNext]_vars

\* Every model call returns and the platform sends every utterance its
\* end or its error event, also one that cancel() removed.
AnalysisFairness ==
    \A i \in 1..MaxFlows :
        /\ SF_vars(/\ i <= Len(flows)
                   /\ \/ \E ok \in BOOLEAN, text \in AnalysisTexts :
                            AnalyzeMistakesReturns(i, ok, text)
                      \/ \E ok \in BOOLEAN, text \in ResponseTexts :
                            SuggestAnswerReturns(i, ok, text))
        /\ SF_vars(/\ i <= Len(flows)
                   /\ UtteranceEnds(i) \/ UtteranceErrors(i))

AnalysisFairSpec == AnalysisSpec /\ AnalysisFairness

\* The dictation of an answer: a session is running after the first
\* question, a result event has been delivered or none, and further result
\* events of the session follow, while the user may edit the answer box
\* until the session ends.
DictationInit ==
    /\ earlierResults \in SessionLists
    /\ appState = "chat"
    /\ loadingMessage = ThinkingFirst
    /\ conversation =
          << NewMessage(0, "system", ResumeProcessed, << >>),
             NewMessage(1, "assistant", <<"Q1">>, << >>) >>
    /\ userInput = ResultText(earlierResults)
    /\ nextId = 2
    /\ modalData = << >>
    /\ flows = << >>
    /\ lastAlert = << >>
    /\ isListening = TRUE
    /\ countdown = <<MAX_DURATION_SECONDS>>
    /\ silenceTimer = 0
    /\ countdownInterval = TRUE
    /\ timeouts = {}
    /\ recognition = "running"
    /\ listenPromise = "pending"
    /\ isAnalyzing = {}
    /\ timeLeft = << >>
    /\ stale = {}
    /\ idle = 0
    /\ file = << >>
    /\ fullText = << >>
    /\ stoppedBySubmit = FALSE

DictationNext ==
    \/ \E results \in SessionLists :
          Continues(earlierResults, results) /\ OnResult(results)
    \/ \E t \in TypedTexts : TypeInput(t)
    \/ StartListening
    \/ OnEnd

DictationSpec == DictationInit /\ [][DictationNext]_vars

\* The text extractor on its own: getText is called on a document and
\* returns.
ExtractInit ==
    /\ appState = "loading"
    /\ loadingMessage = ReadingResume
    /\ conversation = << >>
    /\ userInput = << >>
    /\ nextId = 0
    /\ modalData = << >>
    /\ flows = <<Flow("onFileSelected", "getText", "initial", <<"loading">>, -1)>>
    /\ lastAlert = << >>
    /\ isListening = FALSE
    /\ countdown = << >>
    /\ silenceTimer = 0
    /\ countdownInterval = FALSE
    /\ timeouts = {}
    /\ recognition = "idle"
    /\ listenPromise = "none"
    /\ isAnalyzing = {}
    /\ timeLeft = << >>
    /\ stale = {}
    /\ idle = 0
    /\ file \in Documents
    /\ fullText = << >>
    /\ earlierResults = << >>
    /\ stoppedBySubmit = FALSE

\* getText returns fullText
GetTextReturns ==
    /\ fullText = << >>
    /\ fullText' = <<GetText(file)>>
    /\ UNCHANGED <<ctl, flows, lastAlert, lsn, isAnalyzing, clk, file, ses>>

ExtractNext == GetTextReturns

ExtractSpec == ExtractInit /\ [][ExtractNext]_vars

-----------------------------------------------------------------------------
(* Claims *)

IsPrefix(s, t) == Len(s) <= Len(t) /\ SubSeq(t, 1, Len(s)) = s

\* the flows parked at one of the awaits pcs
Outstanding(pcs) == {i \in 1..Len(flows) : flows[i].pc \in pcs}

Calls == {"getText", "generateFirstQuestion", "generateFollowUpQuestion"}

\* C1: at most one of the controller's asynchronous operations is
\* outstanding; in the words of its last clause, no submitAnswer has its
\* model call outstanding while an utterance that an earlier invocation
\* started is still being spoken.
C1_OneOperationOutstanding ==
    \A i, j \in 1..Len(flows) :
        (/\ flows[i].kind = "submitAnswer"
         /\ flows[i].pc = "generateFollowUpQuestion")
            => flows[j].pc # "speak"

\* the submitAnswer step that takes the early return, or would have to under
\* the claimed guard
SubmitStep == SubmitAnswer /\ NoAlert

\* C2 as claimed: submitAnswer changes nothing when the trimmed input is
\* empty or the phase is not chat (loading or initial).
C2_SubmitNoOpUnlessChat ==
    [][(SubmitStep /\ (~Truthy(Trim(userInput)) \/ appState # "chat"))
          => UNCHANGED <<conversation, userInput, appState, flows, nextId>>]_vars

\* C3 as claimed: the conversation of a state is a prefix of the
\* conversation of every later state.
C3_AppendOnly == [][IsPrefix(conversation, conversation')]_vars

\* the step in which text extraction of some upload resolves
ExtractionResolves == \E i \in 1..Len(flows) : GetTextResolves(i)

\* C3 amended: every step either keeps the conversation as a prefix of the
\* new one, or is the resolution of a text extraction, which replaces the
\* conversation by the single system message.
C3_AppendOnlyBetweenUploads ==
    [][\/ IsPrefix(conversation, conversation')
       \/ /\ ExtractionResolves
          /\ Len(conversation') = 1
          /\ conversation'[1].role = "system"]_vars

\* C3 witness: a later upload has replaced a conversation that held
\* messages, and the new conversation has grown since.
C3_Witness ==
    /\ Len(conversation) >= 2
    /\ conversation[1].role = "system"
    /\ conversation[1].id >= 2

\* the number of messages of conv with role system
SystemCount(conv) ==
    Cardinality({k \in 1..Len(conv) : conv[k].role = "system"})

\* C4 as claimed: in every reachable state the conversation holds exactly
\* one system message.
C4_ExactlyOneSystem == SystemCount(conversation) = 1

\* C4 amended: the conversation never holds two system messages; it holds
\* none until a text extraction resolves (the initial state has none, nor
\* has a conversation begun by a submission made before any upload) and
\* exactly one, its first message, from then on.
C4_OneSystemOnceExtracted ==
    /\ [](/\ SystemCount(conversation) <= 1
          /\ SystemCount(conversation) = 1 => conversation[1].role = "system")
    /\ [][/\ SystemCount(conversation) = 1 => SystemCount(conversation') = 1
          /\ ExtractionResolves => SystemCount(conversation') = 1
          /\ (SystemCount(conversation) = 0 /\ SystemCount(conversation') = 1)
                => ExtractionResolves]_vars

\* C4 witness: a later upload has begun a new conversation, which holds the
\* system message, a question and an answer.
C4_Witness ==
    /\ Len(conversation) >= 3
    /\ SystemCount(conversation) = 1
    /\ conversation[1].id >= 1

\* C5: ids increase strictly along the conversation, every id is below
\* nextId, nextId never decreases, and a message that a step adds has an id
\* that no message was given before (at least the nextId of before).
C5_IdsIncrease ==
    /\ [](/\ \A i, j \in 1..Len(conversation) :
                i < j => conversation[i].id < conversation[j].id
          /\ \A i \in 1..Len(conversation) : conversation[i].id < nextId)
    /\ [][/\ nextId' >= nextId
          /\ \A k \in 1..Len(conversation') :
                \/ conversation'[k].id >= nextId
                \/ \E m \in 1..Len(conversation) :
                      conversation[m] = conversation'[k]]_vars

\* C5 witness: a conversation begun by a later upload, whose messages were
\* created after messages of an earlier conversation.
C5_Witness ==
    /\ Len(conversation) >= 3
    /\ conversation[1].role = "system"
    /\ conversation[1].id >= 2

\* the positions below k of conv that hold an assistant message
AssistantsBefore(conv, k) == {i \in 1..(k - 1) : conv[i].role = "assistant"}

Latest(S) == CHOOSE i \in S : \A j \in S : j <= i

\* C6 as claimed: the questionContext of a user message is the text of the
\* last assistant message before it, whatever that text is, and the
\* placeholder only when there is none.
C6_ContextIsLastQuestion ==
    \A k \in 1..Len(conversation) :
        conversation[k].role = "user" =>
            LET before == AssistantsBefore(conversation, k) IN
            conversation[k].questionContext =
                << IF before = {} THEN NoQuestionFound
                   ELSE conversation[Latest(before)].text >>

\* C6 amended: the questionContext of a user message is the text of the
\* last assistant message before it when that text is not empty, and the
\* placeholder when there is no assistant message or its text is empty.
C6_ContextIsLastNonEmptyQuestion ==
    \A k \in 1..Len(conversation) :
        conversation[k].role = "user" =>
            LET before == AssistantsBefore(conversation, k) IN
            conversation[k].questionContext =
                << IF before = {} \/ conversation[Latest(before)].text = << >>
                   THEN NoQuestionFound
                   ELSE conversation[Latest(before)].text >>

\* C6 witness: an answer whose context is the text of the last of two
\* assistant messages with different texts.
C6_Witness ==
    \E k \in 1..Len(conversation) :
        /\ conversation[k].role = "user"
        /\ \E i, j \in AssistantsBefore(conversation, k) :
              /\ i < j
              /\ j = Latest(AssistantsBefore(conversation, k))
              /\ conversation[i].text # conversation[j].text
              /\ conversation[i].text # << >>
              /\ conversation[k].questionContext = <<conversation[j].text>>

\* the submission that appended user message n is at one of the awaits pcs
SubmissionAt(n, pcs) ==
    \E i \in 1..Len(flows) :
        /\ flows[i].kind = "submitAnswer"
        /\ flows[i].msg = n
        /\ flows[i].pc \in pcs

\* the last message of the conversation is an assistant message newer than
\* message n
AnsweredAfter(n) ==
    /\ conversation # << >>
    /\ conversation[Len(conversation)].role = "assistant"
    /\ conversation[Len(conversation)].id > n

\* C7: every accepted submission leads to a state in which its follow-up
\* has been appended as the last message, the phase is chat and the
\* submission is at its speak; the step that gets there appends exactly one
\* assistant message, with the apology text when the model call failed; and
\* the phase never stays loading forever.
C7_SubmissionAnswered ==
    /\ \A n \in 0..(MaxId - 2) :
          SubmissionAt(n, {"delay", "generateFollowUpQuestion"})
             ~> (/\ SubmissionAt(n, {"speak"})
                 /\ AnsweredAfter(n)
                 /\ appState = "chat")
    /\ (appState = "loading") ~> (appState # "loading")
    /\ [][\A i \in 1..Len(flows), ok \in BOOLEAN, text \in ResponseTexts :
            GenerateFollowUpQuestionReturns(i, ok, text) =>
               /\ conversation' =
                     Append(conversation,
                            NewMessage(nextId, "assistant",
                                       IF ok THEN text ELSE Apology, << >>))
               /\ appState' = "chat"]_vars

\* C7 witness: a submission whose model call failed has been answered with
\* the apology and the phase is chat again.
C7_Witness ==
    \E i \in 1..Len(flows) :
        /\ flows[i].kind = "submitAnswer"
        /\ flows[i].pc = "speak"
        /\ appState = "chat"
        /\ AnsweredAfter(flows[i].msg)
        /\ conversation[Len(conversation)].text = Apology

\* C8: an upload whose extraction succeeded has set the phases loading,
\* chat, loading, chat, in that order, by the time its first question is
\* spoken; and when the phase is chat, the end of that utterance, whether it
\* finished, was cancelled or failed, leaves the phase chat.
C8_UploadEndsInChat ==
    /\ [](\A i \in 1..Len(flows) :
             (flows[i].kind = "onFileSelected"
                 /\ flows[i].pc \in {"speak", "cancelled"})
                => flows[i].sets = <<"loading", "chat", "loading", "chat">>)
    /\ [][\A i \in 1..Len(flows) :
            (/\ flows[i].kind = "onFileSelected"
             /\ appState = "chat"
             /\ UtteranceEnds(i) \/ UtteranceErrors(i))
               => appState' = "chat"]_vars

\* C9: selecting a file that is not a PDF shows the alert and changes
\* nothing else: phase, conversation, input, modal, every outstanding call
\* and the listening session keep their values.
C9_NonPdfRejected ==
    [][\A files \in FileLists :
          (/\ files # << >>
           /\ files[1].type # "application/pdf"
           /\ OnFileSelected(files))
             => /\ lastAlert' = PleaseUploadPdf
                /\ UNCHANGED <<ctl, flows, lsn>>]_vars

\* C9 witness: a non-PDF file has been rejected in the middle of an
\* interview, while a call of the interview was outstanding.
C9_Witness ==
    /\ lastAlert = PleaseUploadPdf
    /\ Len(conversation) >= 2
    /\ flows # << >>

\* C10 as stated: when the extraction of an upload that began in the
\* initial or the chat phase fails, the phase is again the phase the upload
\* found, and the conversation is unchanged.
C10_PhaseReverts ==
    [][\A i \in 1..Len(flows) :
          (flows[i].found \in {"initial", "chat"} /\ GetTextRejects(i)) =>
             /\ appState' = flows[i].found
             /\ conversation' = conversation]_vars

\* C10: when the extraction fails, the error is shown, the phase is set to
\* initial whatever phase the upload found, the conversation and the next
\* id are unchanged, and the upload ends there: no model call is started.
C10_ExtractionFailureResets ==
    [][\A i \in 1..Len(flows) :
          GetTextRejects(i) =>
             /\ lastAlert' = ErrorProcessingResume
             /\ appState' = "initial"
             /\ conversation' = conversation
             /\ nextId' = nextId
             /\ flows' = Remove(flows, i)]_vars

\* C10 witness: the extraction of a second upload has failed while the
\* first question of the only interview so far was being spoken: the error
\* is on screen, the phase is initial and the conversation is still there.
C10_Witness ==
    /\ lastAlert = ErrorProcessingResume
    /\ appState = "initial"
    /\ nextId = 2
    /\ Len(conversation) = 2
    /\ conversation[1].role = "system"
    /\ conversation[2].role = "assistant"
    /\ \E i \in 1..Len(flows) :
          flows[i].kind = "onFileSelected" /\ flows[i].pc = "speak"

\* a timer callback calls stopListening() on a session nothing has stopped
AutoStop ==
    /\ Tick \/ \E h \in 1..MaxTimers : SilenceTimeoutFires(h)
    /\ recognition = "running"
    /\ recognition' = "stopping"

\* C11: a session that nothing has stopped has been silent for at most 10
\* seconds and has a second or more of its 120 left, and a timer stops a
\* session only with the 120th tick of the countdown or when 10 seconds
\* have passed since the last recognition event (or since the start).
C11_AutoStopExactly ==
    /\ [](recognition = "running" =>
             /\ idle <= SilenceSeconds
             /\ countdown # <<0>>)
    /\ [][AutoStop => (countdown' = <<0>> \/ idle = SilenceSeconds)]_vars

\* C12: once a session has ended (end or error event), its countdown
\* interval is cleared and none of the silence timeouts it armed is still
\* armed, so that no timer of an ended session can fire.
C12_TimersClearedOnExit ==
    /\ stale = {}
    /\ recognition \in {"idle", "errored"} =>
          (~countdownInterval /\ countdown = << >>)

\* the platform session is between start() and its end event
SessionOutstanding == recognition # "idle"

\* C13: a listen call made while listening changes nothing; a listening
\* flag that is true has a platform session outstanding, and a promise of
\* listen that is pending belongs to a session that is listening and has
\* not failed.
C13_ListenIdempotent ==
    /\ [](isListening => SessionOutstanding)
    /\ [](listenPromise = "pending" =>
             (isListening /\ recognition \notin {"idle", "errored"}))
    /\ [][ListenAlreadyListening => UNCHANGED vars]_vars

\* C13 witness: a session that has been running for some seconds, with its
\* promise pending and a silence timeout armed: a listen call leaves it so.
C13_Witness ==
    /\ isListening
    /\ recognition = "running"
    /\ listenPromise = "pending"
    /\ countdown # << >> /\ countdown[1] < MAX_DURATION_SECONDS
    /\ silenceTimer \in timeouts

\* the listening side is idle: the flag is false, the countdown display is
\* null, both timer fields are null and what they held is disarmed, no
\* promise of listen is pending and no platform session is outstanding
ListeningIdle ==
    /\ ~isListening
    /\ countdown = << >>
    /\ silenceTimer = 0
    /\ ~countdownInterval
    /\ listenPromise = "none"
    /\ ~SessionOutstanding

\* C14: every listening session leads to the idle state, whether it is
\* stopped by the user, by the countdown, by a silence timeout or by an
\* error; the end event resolves the promise and clears flag, countdown
\* and timers, the error event rejects it with the error code, which the
\* caller shows.
C14_ListeningReturnsToIdle ==
    /\ (isListening \/ SessionOutstanding) ~> ListeningIdle
    /\ [][OnEnd => ListeningIdle']_vars
    /\ [][\A error \in ErrorCodes :
            (OnError(error) /\ listenPromise = "pending") =>
               /\ ~isListening'
               /\ countdown' = << >>
               /\ silenceTimer' = 0
               /\ ~countdownInterval'
               /\ listenPromise' = "none"
               /\ lastAlert' = MicAlert(error)]_vars

\* C14 witness: a session that delivered a result has ended and the
\* listening side is idle again.
C14_Witness ==
    /\ ListeningIdle
    /\ userInput # << >>
    /\ lastAlert = << >>

\* the utterances that are being spoken
Speaking == {i \in 1..Len(flows) : flows[i].pc = "speak"}

\* the promise of the speak call with serial number n has not settled
SpeakPending(n) ==
    \E i \in 1..Len(flows) :
        /\ flows[i].kind = "playSuggestionAudio"
        /\ flows[i].msg = n

\* C15: at most one utterance is being spoken; a speak call leaves its own
\* utterance as the only one being spoken, every other one cancelled; and
\* every promise of speak is settled in the end, by the end or the error
\* event of its utterance.
C15_OneUtterance ==
    /\ [](Cardinality(Speaking) <= 1)
    /\ [][(PlaySuggestionAudio /\ Len(flows') > Len(flows)) =>
            (/\ Speaking' = {Len(flows')}
             /\ \A i \in Speaking : flows'[i].pc = "cancelled")]_vars
    /\ \A n \in 0..MaxFlows : SpeakPending(n) ~> ~SpeakPending(n)
    /\ [][\A n \in 0..MaxFlows :
            (SpeakPending(n) /\ ~SpeakPending(n)') =>
               \E i \in 1..Len(flows) :
                   /\ flows[i].msg = n
                   /\ UtteranceEnds(i) \/ UtteranceErrors(i)]_vars

\* C15 witness: a speak call has cancelled the utterance that was being
\* spoken: the earlier one is cancelled, its promise not yet settled, and
\* the later one is being spoken.
C15_Witness ==
    \E i, j \in 1..Len(flows) :
        /\ i < j
        /\ flows[i].pc = "cancelled"
        /\ flows[j].pc = "speak"

\* the requestAnalysis invocations parked at their model call
Analyses == {i \in 1..Len(flows) : flows[i].kind = "requestAnalysis"}

\* C16: the flag of a message is true exactly while an analysis call for
\* that message is outstanding, and no message has two analysis calls
\* outstanding.
C16_FlagCoversAnalysis ==
    /\ \A id \in isAnalyzing : \E i \in Analyses : flows[i].msg = id
    /\ \A i \in Analyses : flows[i].msg \in isAnalyzing
    /\ \A i, j \in Analyses : flows[i].msg = flows[j].msg => i = j

\* the ids of the messages that have no questionContext
WithoutContext ==
    {conversation[k].id : k \in {j \in 1..Len(conversation) :
                                    ~HasQuestionContext(conversation[j])}}

\* C17: every system and assistant message is without questionContext; a
\* requestAnalysis step on a message without questionContext changes
\* nothing, so that no such message ever has its flag set or a model call
\* outstanding.
C17_NoContextNoAnalysis ==
    /\ [](\A k \in 1..Len(conversation) :
             conversation[k].role # "user" =>
                conversation[k].id \in WithoutContext)
    /\ [][\A type \in AnalysisTypes, k \in 1..Len(conversation) :
            (/\ conversation[k].id \in WithoutContext
             /\ RequestAnalysis(type, conversation[k]))
               => UNCHANGED vars]_vars
    /\ [](isAnalyzing \cap WithoutContext = {})
    /\ [](\A i \in Analyses : flows[i].msg \notin WithoutContext)

\* C17 witness: analysis has been requested and one request, on a user
\* message, is outstanding while the modal shows the result of another;
\* the system and assistant messages have no flag set and no call.
C17_Witness ==
    /\ modalData # << >>
    /\ Analyses # {}
    /\ isAnalyzing # {}
    /\ isAnalyzing \cap WithoutContext = {}

\* C18: when its model call fails, analyzeMistakes returns the JSON text
\* of the array of the one fallback segment, which parses to that array,
\* and requestAnalysis shows it in the 'Mistake Analysis' modal, never the
\* 'Error' modal; the free-text operations return the apology, which a
\* failed suggestion shows.
C18_FailureFallbacks ==
    /\ [](\A text \in AnalysisTexts :
             /\ JsonParses(AnalyzeMistakes(FALSE, text))
             /\ JsonParse(AnalyzeMistakes(FALSE, text)) = <<FallbackSegment>>)
    /\ [](\A text \in ResponseTexts : GenerateContent(FALSE, text) = Apology)
    /\ [][\A i \in 1..Len(flows), text \in AnalysisTexts :
            AnalyzeMistakesReturns(i, FALSE, text) =>
               modalData' = <<MistakeModal(<<FallbackSegment>>)>>]_vars
    /\ [][\A i \in 1..Len(flows), text \in ResponseTexts :
            SuggestAnswerReturns(i, FALSE, text) =>
               modalData' = <<SuggestionModal(Apology)>>]_vars

\* C18 witness: the modal shows the fallback segment of a failed
\* analyzeMistakes call as a mistake analysis.
C18_Witness ==
    /\ modalData = <<MistakeModal(<<FallbackSegment>>)>>
    /\ isAnalyzing = {}

\* the parts with sep between each two that follow each other
RECURSIVE JoinedWith(_, _)
JoinedWith(parts, sep) ==
    IF parts = << >> THEN << >>
    ELSE IF Len(parts) = 1 THEN Head(parts)
    ELSE Head(parts) \o sep \o JoinedWith(Tail(parts), sep)

\* the texts of the pages of a document, each its runs with a space between
PageTexts(pages) ==
    [n \in 1..Len(pages) |-> JoinedWith(pages[n], <<" ">>)]

\* C19 as claimed: the result of getText is the page texts with a blank
\* line between consecutive pages and nothing after the last.
C19_PagesJoined ==
    fullText # << >> =>
       fullText[1] = JoinedWith(PageTexts(file), <<"\n", "\n">>)

\* C19: the result of getText is the page texts in page order, each
\* followed by a blank line, the last one too.
C19_PagesTerminated ==
    fullText # << >> =>
       fullText[1] =
          JoinedWith(PageTexts(file), <<"\n", "\n">>) \o <<"\n", "\n">>

\* C19 witness: the text of a document of two pages has been extracted,
\* the first page with two runs, the second with one.
C19_Witness ==
    /\ fullText # << >>
    /\ Len(file) = 2
    /\ Len(file[1]) = 2
    /\ Len(file[2]) = 1
    /\ file[1][1] # << >> /\ file[1][2] # << >> /\ file[2][1] # << >>

\* the invocations of requestAnalysis that are parked at their await
AnalysisFlows(f) == SelectSeq(f, LAMBDA x : x.kind = "requestAnalysis")

\* the invocations of playSuggestionAudio whose utterance has not settled
AudioFlows(f) == SelectSeq(f, LAMBDA x : x.kind = "playSuggestionAudio")

\* a step of requestAnalysis: an invocation parks at its await or resumes
\* from it, or a flag changes
AnalysisStep ==
    \/ AnalysisFlows(flows') # AnalysisFlows(flows)
    \/ isAnalyzing' # isAnalyzing

\* C20: a step of a requestAnalysis call, of either kind and with either
\* outcome, leaves the conversation, the phase, the input buffer, the
\* loading message, the id counter, the alert, the listening session and
\* the utterances as they are, and changes the flag of one message at
\* most, a message of the conversation; only the modal data and that flag
\* change.
C20_AnalysisIsTransient ==
    [][AnalysisStep =>
          /\ conversation' = conversation
          /\ appState' = appState
          /\ userInput' = userInput
          /\ loadingMessage' = loadingMessage
          /\ nextId' = nextId
          /\ lastAlert' = lastAlert
          /\ lsn' = lsn
          /\ AudioFlows(flows') = AudioFlows(flows)
          /\ \E k \in 1..Len(conversation) :
                \A id \in isAnalyzing \cup isAnalyzing' :
                   (id \in isAnalyzing) # (id \in isAnalyzing')
                      => id = conversation[k].id]_vars

\* C20 witness: an analysis was requested and has returned into the
\* modal, no analysis is outstanding, and the conversation, the phase and
\* the input buffer are those of the start.
C20_Witness ==
    /\ modalData # << >>
    /\ modalData[1].title \in {"Mistake Analysis", "Error", "Suggested Answer"}
    /\ flows = << >>
    /\ isAnalyzing = {}
    /\ Len(conversation) = 6
    /\ appState = "chat"
    /\ userInput = << >>

\* the transcripts of a result list one after the other, in result order
RECURSIVE AllTranscripts(_)
AllTranscripts(results) ==
    IF results = << >> THEN << >>
    ELSE AllTranscripts(SubSeq(results, 1, Len(results) - 1))
            \o results[Len(results)].transcript

\* C21: every result event of a session hands the callback (which writes
\* userInput) the transcripts of all results of the event's list, final and
\* interim, in result order; the text begins with every segment that an
\* earlier event of the session had as final, in order.
C21_CallbackTextComplete ==
    [][\A results \in SessionLists :
          (Continues(earlierResults, results) /\ OnResult(results)) =>
             /\ userInput' = AllTranscripts(results)
             /\ IsPrefix(AllTranscripts(FinalResults(earlierResults)),
                         userInput')]_vars

\* C21 witness: an earlier event had a final result and an interim one, and
\* the callback of a later event has written a text that holds the final
\* one and a second segment, another one than the earlier event had.
C21_Witness ==
    /\ recognition = "running"
    /\ Len(earlierResults) = 2
    /\ Len(FinalResults(earlierResults)) = 1
    /\ userInput # ResultText(earlierResults)
    /\ IsPrefix(AllTranscripts(FinalResults(earlierResults)), userInput)
    /\ userInput \in
          { AllTranscripts(FinalResults(earlierResults)) \o t : t \in Segments }

\* C22: the countdown is null or a whole number of seconds from 0 to 120,
\* and it is null unless the listening flag is true; it becomes 120 on the
\* start event of a session and on no other step, a tick takes it from c
\* to c - 1 while c is above 0 and leaves it 0 once it is 0, and every
\* other change of it is the reset to null.
C22_CountdownInRange ==
    /\ [](/\ countdown = << >> \/ countdown[1] \in 0..MAX_DURATION_SECONDS
          /\ countdown # << >> => isListening)
    /\ [][/\ OnStart => countdown' = <<MAX_DURATION_SECONDS>>
          /\ (Tick /\ countdown # << >>) =>
                countdown' = <<IF countdown[1] > 0 THEN countdown[1] - 1
                               ELSE 0>>
          /\ countdown' # countdown =>
                \/ OnStart
                \/ Tick /\ countdown # << >>
                \/ countdown' = << >>]_vars

\* C22 witness: the countdown of a session has come down to 0 and the
\* session, asked to stop, has not ended yet.
C22_Witness ==
    /\ countdown = <<0>>
    /\ isListening
    /\ recognition = "stopping"

\* C23 as claimed: from the step in which submitAnswer has asked the
\* running session to stop and has emptied the input buffer, until the
\* platform's end event of that session or an edit of the user, the input
\* buffer is empty: no result event of the stopped session writes a
\* transcript into it.
C23_BufferStaysEmpty == stoppedBySubmit => userInput = << >>

\* a text that is not empty and neither begins nor ends with white space
TrimmedNonEmpty(t) ==
    /\ t # << >>
    /\ ~IsSpace(t[1])
    /\ ~IsSpace(t[Len(t)])

\* C24: every message of the user has a question context that is there and
\* not empty, and a text that is not empty and has no white space at its
\* ends; every message of the assistant or the system has no question
\* context; so the guard of requestAnalysis lets exactly the messages of the
\* user pass.
C24_ContextIffUser ==
    \A k \in 1..Len(conversation) :
        LET m == conversation[k]
        IN  /\ m.role = "user" =>
                 /\ Len(m.questionContext) = 1
                 /\ m.questionContext[1] # << >>
                 /\ TrimmedNonEmpty(m.text)
            /\ m.role \in {"assistant", "system"} => m.questionContext = << >>
            /\ HasQuestionContext(m) <=> m.role = "user"

\* C24 witness: the model returned an empty question, the user answered
\* it with an input that had white space around it, and the answer was
\* recorded trimmed and with the fallback context.
C24_Witness ==
    \E k \in 2..Len(conversation) :
        /\ conversation[k].role = "user"
        /\ conversation[k].questionContext = <<NoQuestionFound>>
        /\ conversation[k].text = <<"a">>
        /\ conversation[k - 1].role = "assistant"
        /\ conversation[k - 1].text = << >>

=============================================================================
